---------------------------- MODULE Spec2Model ----------------------------
(***************************************************************************)
(* Model of the Alpaca connector (src/ingestion/connectors/                *)
(* alpaca_connector.py) and of the part of the client it calls             *)
(* (src/alpaca/client.py).                                                 *)
(*                                                                         *)
(* Three operations are modelled, each under its own specification:        *)
(*   SpecFetch      AlpacaConnector.fetch_bars                             *)
(*   SpecBackfill   AlpacaConnector.backfill (FairBackfill adds fairness)  *)
(*   SpecTradable   AlpacaConnector.get_tradable_symbols                   *)
(*                                                                         *)
(* The remote SDK is the environment: each SDK call either raises or       *)
(* returns a pandas table (REST.get_bars(...).df), chosen with \E.         *)
(*                                                                         *)
(* Reading notes on the source.                                            *)
(*  - alpaca_connector.py line 68 ends with a stray ':' after the          *)
(*    assignment, so CPython rejects the file as written.  The model       *)
(*    reads that statement without the colon; every result below is about  *)
(*    the file with that one character removed.                            *)
(*  - alpaca_connector.py line 4 binds the name pd to polars, and          *)
(*    client.py returns pl.DataFrame() for "no data": the empty tables     *)
(*    that circulate are polars frames, which have no attribute .empty.    *)
(*  - Dates are day numbers; a datetime is [date, sec, us].                *)
(***************************************************************************)
EXTENDS Integers, Sequences, FiniteSets, TLC

VARIABLES
    pc,               \* position of the running call
    start_date,       \* backfill: normalised start_date (a day number)
    end_date,         \* backfill: normalised end_date
    current_date,     \* backfill: loop variable
    all_data,         \* backfill: list of non-empty batch tables
    windows,          \* history: (start, end) of every fetch_bars call made by backfill
    fetch_exc,        \* history: exception raised by a fetch_bars call inside backfill
    sdk_failed,       \* history: some SDK call of the running operation raised
    sdk_resp,         \* fetch_bars: what the SDK answered to the call
    assets_resp,      \* get_tradable_symbols: what Client.get_assets answered
    bar_resps,        \* get_tradable_symbols: SDK answer for the i-th asset's bars
    tradable_symbols, \* get_tradable_symbols: the list being built / returned
    ret,              \* table returned by fetch_bars / backfill
    exc               \* exception the call raised

vars == <<pc, start_date, end_date, current_date, all_data, windows, fetch_exc,
          sdk_failed, sdk_resp, assets_resp, bar_resps, tradable_symbols, ret, exc>>

-----------------------------------------------------------------------------
(* Bounds of the model *)

MaxDay == 11

MaxAssets == 2

MaxRows == 2

Dates == 0..MaxDay

None == "None"

-----------------------------------------------------------------------------
(* Outcomes of a call: a returned value or a raised exception *)

Return(v) == [kind |-> "return", value |-> v]

Raise(e) == [kind |-> "raise", exc |-> e]

-----------------------------------------------------------------------------
(* Tables.  lib says which library's DataFrame the object is. *)

required_columns == <<"symbol", "timestamp", "open", "high", "low", "close">>

RequiredSet == {required_columns[i] : i \in 1..Len(required_columns)}

ColumnUniverse == RequiredSet \cup {"column"}

\* pd.DataFrame() / pl.DataFrame(): an empty polars frame
PolarsEmpty == [lib |-> "polars", empty |-> TRUE, index |-> None, columns |-> {}]

NoTable == [lib |-> None, empty |-> TRUE, index |-> None, columns |-> {}]

\* The tables REST.get_bars(...).df can be: pandas frames, indexed by timestamp
\* or by an unnamed index; a frame without columns is empty.
SdkTables ==
    {t \in [lib : {"pandas"}, empty : BOOLEAN, index : {"timestamp", "index"},
            columns : SUBSET ColumnUniverse] : t.columns = {} => t.empty}

SdkError == "APIError"

SdkResponses == {Raise(SdkError)} \cup {Return(t) : t \in SdkTables}

\* Attributes the two libraries' frames define themselves
PandasAttrs == {"empty", "columns", "reset_index", "copy", "index"}

PolarsAttrs == {"columns", "is_empty", "height", "width"}

\* obj.name succeeds: pandas falls back to a column of that name, polars does not
HasAttr(t, name) ==
    IF t.lib = "pandas" THEN name \in PandasAttrs \cup t.columns
    ELSE name \in PolarsAttrs

\* bars.reset_index(): the index becomes a column (pandas refuses a duplicate)
ResetIndex(t) ==
    IF t.index \in t.columns THEN Raise("ValueError")
    ELSE Return([t EXCEPT !.columns = @ \cup {t.index}, !.index = "range"])

\* row labels of a frame that are strings: the labels are timestamps, or the
\* integers 0..n-1 after reset_index, never column names
StringLabels(t) == {}

\* `key in bars.column`: membership in a pandas Series tests its row labels
InSeriesLabels(t, key) == key \in StringLabels(t)

-----------------------------------------------------------------------------
(* AlpacaClient.get_bars, as far as its result goes *)

ClientGetBars(sdk) ==
    IF sdk.kind = "raise" THEN Raise(sdk.exc)          \* except: log, raise
    ELSE IF sdk.value.empty THEN Return(PolarsEmpty)   \* return pl.DataFrame()
    ELSE Return(sdk.value)

-----------------------------------------------------------------------------
(* AlpacaConnector.fetch_bars *)

\* bars[required_columns].copy() plus the three derived columns
FormattedBars(bars) ==
    [bars EXCEPT !.columns = RequiredSet \cup {"timeframe", "source", "fetched_at"}]

\* the loop over required_columns, from its i-th element
RECURSIVE CheckColumns(_, _)
CheckColumns(bars, i) ==
    IF i > Len(required_columns) THEN Return(FormattedBars(bars))
    ELSE IF ~HasAttr(bars, "column") THEN Raise("AttributeError")
    ELSE IF ~InSeriesLabels(bars, required_columns[i]) THEN Return(PolarsEmpty)
    ELSE CheckColumns(bars, i + 1)

\* every exception inside the try is logged and re-raised unchanged
fetch_bars(sdk) ==
    LET r == ClientGetBars(sdk) IN
    IF r.kind = "raise" THEN r
    ELSE LET bars == r.value IN
         IF ~HasAttr(bars, "empty") THEN Raise("AttributeError")
         ELSE IF bars.empty THEN Return(PolarsEmpty)
         ELSE LET b == ResetIndex(bars) IN
              IF b.kind = "raise" THEN b
              ELSE CheckColumns(b.value, 1)

-----------------------------------------------------------------------------
(* datetime values built by backfill, and the arithmetic the properties use *)

\* datetime.min.time() and datetime.max.time()
TimeMin == [sec |-> 0, us |-> 0]

TimeMax == [sec |-> 86399, us |-> 999999]

\* datetime.combine(date, time)
Combine(d, t) == [date |-> d, sec |-> t.sec, us |-> t.us]

\* timedelta(days=n)
Days(n) == [days |-> n, seconds |-> 0, microseconds |-> 0]

\* b - a for two datetimes, normalised the way timedelta is
Span(a, b) ==
    LET us0  == b.us - a.us
        sec0 == (b.sec - a.sec) - (IF us0 < 0 THEN 1 ELSE 0)
    IN [days         |-> (b.date - a.date) - (IF sec0 < 0 THEN 1 ELSE 0),
        seconds      |-> IF sec0 < 0 THEN sec0 + 86400 ELSE sec0,
        microseconds |-> IF us0 < 0 THEN us0 + 1000000 ELSE us0]

\* timedelta comparison x <= y
TdLeq(x, y) ==
    \/ x.days < y.days
    \/ x.days = y.days /\ x.seconds < y.seconds
    \/ x.days = y.days /\ x.seconds = y.seconds /\ x.microseconds <= y.microseconds

Min(a, b) == IF a <= b THEN a ELSE b

-----------------------------------------------------------------------------
(* AlpacaConnector.backfill *)

\* timedelta(days=7): the step from a window's first day to its batch_end
BatchDays == 7

\* while current_date <= end_date
LoopCond(cur, end) == cur <= end

\* mutant: the step taken one day too long
BatchEnd_OffByOne(cur, end) == Min(cur + BatchDays + 1, end)

\* batch_end = min(current_date + timedelta(days=7), end_date)
BatchEnd(cur, end) == Min(cur + BatchDays, end)

\* the (start, end) pair handed to fetch_bars
Window(cur, batch_end) ==
    [start |-> Combine(cur, TimeMin), end |-> Combine(batch_end, TimeMax)]

\* mutant: the next window starts on batch_end itself
NextDate_NoStep(batch_end) == batch_end

\* current_date = batch_end + timedelta(days=1)
NextDate(batch_end) == batch_end + 1

\* mutant: the handler swallows the error and hands back an empty table
BackfillExcept_Swallow(e) == Return(PolarsEmpty)

\* except Exception as e: log, raise
BackfillExcept(e) == Raise(e)

\* the rest of the loop body once fetch_bars has answered r
AfterFetch(r, data) ==
    IF r.kind = "raise" THEN BackfillExcept(r.exc)
    ELSE IF ~HasAttr(r.value, "empty") THEN BackfillExcept("AttributeError")
    ELSE [kind |-> "continue",
          all_data |-> IF ~r.value.empty THEN Append(data, r.value) ELSE data]

\* after the loop: polars.concat takes no ignore_index keyword
BackfillReturn(data) ==
    IF data # <<>> THEN BackfillExcept("TypeError")
    ELSE Return(PolarsEmpty)

Idle ==
    /\ all_data = <<>>
    /\ windows = <<>>
    /\ fetch_exc = None
    /\ sdk_failed = FALSE
    /\ sdk_resp = Raise(None)
    /\ assets_resp = Raise(None)
    /\ bar_resps = <<>>
    /\ tradable_symbols = <<>>
    /\ ret = NoTable
    /\ exc = None

InitBackfill ==
    /\ pc = "call"
    /\ start_date \in Dates
    /\ end_date \in Dates
    /\ current_date = None
    /\ Idle

\* lines 74-75 (lines 62-72 only turn the arguments into dates)
BackfillBegin ==
    /\ pc = "call"
    /\ pc' = "loop"
    /\ current_date' = start_date
    /\ all_data' = <<>>
    /\ UNCHANGED <<start_date, end_date, windows, fetch_exc, sdk_failed, sdk_resp,
                   assets_resp, bar_resps, tradable_symbols, ret, exc>>

\* one pass through the loop body, the fetch_bars call included
BackfillIter ==
    /\ pc = "loop"
    /\ LoopCond(current_date, end_date)
    /\ \E sdk \in SdkResponses :
         LET batch_end == BatchEnd(current_date, end_date)
             r == fetch_bars(sdk)
             o == AfterFetch(r, all_data)
         IN /\ windows' = Append(windows, Window(current_date, batch_end))
            /\ fetch_exc' = IF r.kind = "raise" THEN r.exc ELSE fetch_exc
            /\ sdk_failed' = (sdk_failed \/ sdk.kind = "raise")
            /\ pc' = IF o.kind = "continue" THEN "loop"
                     ELSE IF o.kind = "raise" THEN "raised" ELSE "returned"
            /\ current_date' = IF o.kind = "continue" THEN NextDate(batch_end)
                               ELSE current_date
            /\ all_data' = IF o.kind = "continue" THEN o.all_data ELSE all_data
            /\ exc' = IF o.kind = "raise" THEN o.exc ELSE exc
            /\ ret' = IF o.kind = "return" THEN o.value ELSE ret
    /\ UNCHANGED <<start_date, end_date, sdk_resp, assets_resp, bar_resps,
                   tradable_symbols>>

\* the loop condition fails: lines 99-103
BackfillExit ==
    /\ pc = "loop"
    /\ ~LoopCond(current_date, end_date)
    /\ LET o == BackfillReturn(all_data)
       IN /\ pc' = IF o.kind = "raise" THEN "raised" ELSE "returned"
          /\ exc' = IF o.kind = "raise" THEN o.exc ELSE exc
          /\ ret' = IF o.kind = "return" THEN o.value ELSE ret
    /\ UNCHANGED <<start_date, end_date, current_date, all_data, windows, fetch_exc,
                   sdk_failed, sdk_resp, assets_resp, bar_resps, tradable_symbols>>

NextBackfill == BackfillBegin \/ BackfillIter \/ BackfillExit

SpecBackfill == InitBackfill /\ [][NextBackfill]_vars

\* a call that can take a step takes it: the code is sequential and every
\* fetch_bars call answers (returns or raises)
FairBackfill == SpecBackfill /\ WF_vars(NextBackfill)

-----------------------------------------------------------------------------
(* AlpacaConnector.fetch_bars called on its own *)

InitFetch ==
    /\ pc = "call"
    /\ start_date = 0
    /\ end_date = 0
    /\ current_date = None
    /\ Idle

FetchBarsCall ==
    /\ pc = "call"
    /\ \E sdk \in SdkResponses :
         LET r == fetch_bars(sdk)
         IN /\ sdk_resp' = sdk
            /\ sdk_failed' = (sdk.kind = "raise")
            /\ pc' = IF r.kind = "raise" THEN "raised" ELSE "returned"
            /\ exc' = IF r.kind = "raise" THEN r.exc ELSE exc
            /\ ret' = IF r.kind = "return" THEN r.value ELSE ret
    /\ UNCHANGED <<start_date, end_date, current_date, all_data, windows, fetch_exc,
                   assets_resp, bar_resps, tradable_symbols>>

NextFetch == FetchBarsCall

SpecFetch == InitFetch /\ [][NextFetch]_vars

-----------------------------------------------------------------------------
(* AlpacaConnector.get_tradable_symbols *)

\* default thresholds of the signature
min_price == 5

min_volume == 500000

\* symbols are strings, modelled as sequences of characters
AAPL == <<"A", "A", "P", "L">>

BRKB == <<"B", "R", "K", ".", "B">>

Symbols == {AAPL, BRKB}

AlnumChars ==
    {"A", "B", "C", "D", "E", "F", "G", "H", "I", "J", "K", "L", "M", "N", "O", "P",
     "Q", "R", "S", "T", "U", "V", "W", "X", "Y", "Z",
     "0", "1", "2", "3", "4", "5", "6", "7", "8", "9"}

\* str.isalnum(): non-empty and every character a letter or a digit
IsAlnum(sym) == sym # <<>> /\ \A i \in 1..Len(sym) : sym[i] \in AlnumChars

\* dict.get(key, default)
DictGet(d, key, default) == IF key \in DOMAIN d THEN d[key] ELSE default

\* the dicts Client.get_assets builds (only the two keys the connector reads)
Assets == [symbol : Symbols, tradable : BOOLEAN]

PriceVals == {4, 6}

VolVals == {400000, 600000}

\* tables the SDK can answer to get_bars([symbol], limit=5): up to MaxRows rows,
\* a close column and possibly a volume column
SampleTables ==
    UNION {
      {[lib |-> "pandas", empty |-> (n = 0), index |-> "timestamp",
        columns |-> IF hv THEN {"close", "volume"} ELSE {"close"},
        close |-> c, volume |-> v] :
           c \in [1..n -> PriceVals], v \in [1..n -> VolVals]}
      : n \in 0..MaxRows, hv \in BOOLEAN}

Samples == {Raise(SdkError)} \cup {Return(t) : t \in SampleTables}

RECURSIVE Sum(_)
Sum(q) == IF q = <<>> THEN 0 ELSE Head(q) + Sum(Tail(q))

\* series.mean() >= threshold on a non-empty series
MeanGeq(q, threshold) == Sum(q) >= threshold * Len(q)

\* the name line 159 iterates over is `asset`, the loop's own target, which has
\* no value yet; the list is bound to `assets`
LoopIterable == "asset"

IterValue(assets) ==
    IF LoopIterable = "assets" THEN Return(assets)
    ELSE Raise("UnboundLocalError")

\* the loop body for one asset: TRUE iff its symbol is appended.  Every
\* exception of the inner try (the fetch, .empty on a polars frame, a missing
\* column) is logged and the asset skipped.
Accepts(asset, sdk) ==
    IF ~DictGet(asset, "tradable", FALSE) THEN FALSE
    ELSE IF ~IsAlnum(DictGet(asset, "symbol", <<>>)) THEN FALSE
    ELSE LET r == ClientGetBars(sdk) IN
         IF r.kind = "raise" THEN FALSE
         ELSE LET bars == r.value IN
              IF ~HasAttr(bars, "empty") THEN FALSE
              ELSE IF bars.empty THEN FALSE
              ELSE IF ~({"close", "volume"} \subseteq bars.columns) THEN FALSE
              ELSE /\ MeanGeq(bars.close, min_price)
                   /\ MeanGeq(bars.volume, min_volume)

\* the loop over the asset list, from its i-th element
RECURSIVE FilterAssets(_, _, _, _)
FilterAssets(assets, resps, i, acc) ==
    IF i > Len(assets) THEN acc
    ELSE FilterAssets(assets, resps, i + 1,
                      IF Accepts(assets[i], resps[i])
                      THEN Append(acc, assets[i].symbol) ELSE acc)

\* the whole call; the outer except logs and re-raises
get_tradable_symbols(a, resps) ==
    IF a.kind = "raise" THEN a
    ELSE LET it == IterValue(a.value) IN
         IF it.kind = "raise" THEN it
         ELSE Return(FilterAssets(it.value, resps, 1, <<>>))

InitTradable ==
    /\ pc = "call"
    /\ start_date = 0
    /\ end_date = 0
    /\ current_date = None
    /\ all_data = <<>>
    /\ windows = <<>>
    /\ fetch_exc = None
    /\ sdk_failed = FALSE
    /\ sdk_resp = Raise(None)
    /\ tradable_symbols = <<>>
    /\ ret = NoTable
    /\ exc = None
    /\ \/ assets_resp = Raise(SdkError) /\ bar_resps = <<>>
       \/ \E n \in 0..MaxAssets :
            \E l \in [1..n -> Assets] :
              \E b \in [1..n -> Samples] :
                 assets_resp = Return(l) /\ bar_resps = b

GetTradableSymbolsCall ==
    /\ pc = "call"
    /\ LET r == get_tradable_symbols(assets_resp, bar_resps)
       IN /\ pc' = IF r.kind = "raise" THEN "raised" ELSE "returned"
          /\ exc' = IF r.kind = "raise" THEN r.exc ELSE exc
          /\ tradable_symbols' = IF r.kind = "return" THEN r.value
                                 ELSE tradable_symbols
    /\ sdk_failed' = (assets_resp.kind = "raise")
    /\ UNCHANGED <<start_date, end_date, current_date, all_data, windows, fetch_exc,
                   sdk_resp, assets_resp, bar_resps, ret>>

NextTradable == GetTradableSymbolsCall

SpecTradable == InitTradable /\ [][NextTradable]_vars

-----------------------------------------------------------------------------
(* Properties *)

Finished == pc \in {"returned", "raised"}

Range(q) == {q[i] : i \in 1..Len(q)}

\* calendar days a window takes in
WindowDays(w) == w.start.date .. w.end.date

TimesCovered(d) == Cardinality({i \in 1..Len(windows) : d \in WindowDays(windows[i])})

\* C1: for start_date <= end_date the windows backfill fetches are contiguous:
\* the first starts on start_date, each later one starts the day after the
\* previous one's end, and every day of [start_date, end_date] lies in exactly
\* one window.  Stated of a finished call whose SDK calls all answered.
C1_WindowsPartitionRange ==
    (Finished /\ ~sdk_failed /\ start_date <= end_date) =>
        /\ windows # <<>>
        /\ windows[1].start.date = start_date
        /\ \A i \in 2..Len(windows) :
              windows[i].start.date = windows[i - 1].end.date + 1
        /\ \A d \in start_date..end_date : TimesCovered(d) = 1

\* C2 as stated: every fetched window spans at most 7 days from the midnight
\* of its first day to the last instant of its batch_end day.
C2_SpanAtMost7Days ==
    \A i \in 1..Len(windows) :
        TdLeq(Span(windows[i].start, windows[i].end), Days(7))

\* C2 amended: every fetched window starts at midnight, ends at the last
\* instant of a day at most 7 days after its first day, and so spans at most
\* 7 days 23:59:59.999999 (up to 8 calendar days).
C2_SpanUnder8Days ==
    \A i \in 1..Len(windows) :
        LET w == windows[i] IN
        /\ w.start.sec = 0 /\ w.start.us = 0
        /\ w.end.sec = 86399 /\ w.end.us = 999999
        /\ w.start.date <= w.end.date
        /\ w.end.date - w.start.date <= 7
        /\ TdLeq(Span(w.start, w.end),
                 [days |-> 7, seconds |-> 86399, microseconds |-> 999999])

\* a fetched window that takes in 8 calendar days
C2_Witness ==
    \E i \in 1..Len(windows) : windows[i].end.date - windows[i].start.date = 7

\* C3: for start_date <= end_date, the last window fetched by a finished
\* backfill ends at the last instant of end_date, and no window ends after
\* end_date.
C3_LastWindowEndsOnEndDate ==
    (Finished /\ ~sdk_failed /\ start_date <= end_date) =>
        /\ windows # <<>>
        /\ windows[Len(windows)].end = Combine(end_date, TimeMax)
        /\ \A i \in 1..Len(windows) : windows[i].end.date <= end_date

\* the reference sequence of C4, as (first day, last day) pairs
RECURSIVE RefWindows(_, _)
RefWindows(cur, end) ==
    IF cur > end THEN <<>>
    ELSE LET e == IF cur + 7 <= end THEN cur + 7 ELSE end
         IN <<<<cur, e>>>> \o RefWindows(e + 1, end)

\* C4: the windows a finished backfill has fetched are the reference
\* sequence (so a 10-day range gives two windows, days 1..8 and 9..10).
C4_WindowsEqualReference ==
    (Finished /\ ~sdk_failed) =>
        [i \in 1..Len(windows) |-> <<windows[i].start.date, windows[i].end.date>>]
            = RefWindows(start_date, end_date)

\* C5: once a fetch_bars call of backfill has failed, backfill has failed with
\* that same error and returned no table, and no further window is fetched
\* (neither a later one nor the failed one again).
C5_FetchFailureAbortsBackfill ==
    /\ [](fetch_exc # None => (pc = "raised" /\ exc = fetch_exc /\ ret = NoTable))
    /\ [][fetch_exc # None => windows' = windows]_vars

\* a fetch_bars failure with part of the range still unfetched
C5_Witness ==
    /\ fetch_exc # None
    /\ pc = "raised"
    /\ windows # <<>>
    /\ windows[Len(windows)].end.date < end_date

\* columns fetch_bars sees after reset_index
SeenColumns(t) == t.columns \cup {t.index}

\* C6: when the Client's table is empty or lacks a required column, fetch_bars
\* returns an empty table and raises nothing; when the table is non-empty with
\* every required column, it returns rows.
C6_FetchBarsDegradesToEmpty ==
    (pc # "call" /\ ~sdk_failed) =>
        LET t == sdk_resp.value IN
        /\ pc = "returned"
        /\ ret.empty <=> (t.empty \/ ~(RequiredSet \subseteq SeenColumns(t)))

AssetList == assets_resp.value

\* the i-th asset is a candidate: tradable, with an alphanumeric symbol
Candidate(i) == AssetList[i].tradable /\ IsAlnum(AssetList[i].symbol)

\* the i-th asset's bar fetch succeeded with rows carrying close and volume
Sampled(i) ==
    /\ bar_resps[i].kind = "return"
    /\ ~bar_resps[i].value.empty
    /\ {"close", "volume"} \subseteq bar_resps[i].value.columns

\* both thresholds met, equality included
MeetsThresholds(i) ==
    /\ Sum(bar_resps[i].value.close) >= 5 * Len(bar_resps[i].value.close)
    /\ Sum(bar_resps[i].value.volume) >= 500000 * Len(bar_resps[i].value.volume)

TradableDone == pc # "call" /\ assets_resp.kind = "return"

C8_IncludedIffThresholdsMet ==
    TradableDone =>
        \A i \in 1..Len(AssetList) :
            (Candidate(i) /\ Sampled(i)) =>
                /\ MeetsThresholds(i) => AssetList[i].symbol \in Range(tradable_symbols)
                /\ AssetList[i].symbol \in Range(tradable_symbols) =>
                      \E j \in 1..Len(AssetList) :
                          /\ AssetList[j].symbol = AssetList[i].symbol
                          /\ Candidate(j) /\ Sampled(j) /\ MeetsThresholds(j)

\* C9: when one candidate's bar fetch fails, the call still returns, and every
\* other candidate that meets the thresholds is in the result.
C9_SymbolFailureIsolated ==
    (TradableDone /\ \E i \in 1..Len(AssetList) :
                         Candidate(i) /\ bar_resps[i].kind = "raise") =>
        /\ pc = "returned"
        /\ \A j \in 1..Len(AssetList) :
              (Candidate(j) /\ Sampled(j) /\ MeetsThresholds(j)) =>
                  AssetList[j].symbol \in Range(tradable_symbols)

\* calendar days in [start_date, end_date]
NumDays == IF start_date <= end_date THEN end_date - start_date + 1 ELSE 0

=============================================================================
